---- MODULE Spec2Model ----
(***************************************************************************)
(* Model of src/common/diffHunk.ts: the line scanner (LineReader), the     *)
(* hunk header pattern (DIFF_HUNK_HEADER), the lazy hunk builder           *)
(* (parseDiffHunk) and its two consumers, parsePatch and                   *)
(* getModifiedContentFromDiffHunk.                                         *)
(*                                                                         *)
(* A text is a sequence of one-character strings.  JavaScript string       *)
(* indices are 0-based; At(s, i) reads s[i] the way JavaScript does.       *)
(* A generator is a coroutine: "pc" says whether the consumer or the       *)
(* generator runs and where the generator is suspended.                    *)
(***************************************************************************)
EXTENDS Integers, Sequences, FiniteSets, TLC

LF == "\n"
CR == "\r"

\* Number(undefined): not a number.  It is absorbing under + (NumAdd).
NaN == -2

\* text[i] of JavaScript (0-based); "" stands for undefined (out of range).
At(s, i) == IF i >= 0 /\ i < Len(s) THEN s[i + 1] ELSE ""

\* text.substr(start, length)
Substr(s, start, length) ==
  IF length <= 0 THEN <<>>
  ELSE SubSeq(s, start + 1, IF start + length > Len(s) THEN Len(s) ELSE start + length)

\* text.indexOf(ch, from): the first index >= from holding ch, or -1.
RECURSIVE IndexOf(_, _, _)
IndexOf(s, ch, from) ==
  IF from >= Len(s) THEN -1
  ELSE IF At(s, from) = ch THEN from
  ELSE IndexOf(s, ch, from + 1)

Digits == <<"0", "1", "2", "3", "4", "5", "6", "7", "8", "9">>

IsDigit(c) == \E k \in 1..Len(Digits) : Digits[k] = c

DigitValue(c) == (CHOOSE k \in 1..Len(Digits) : Digits[k] = c) - 1

\* The index just after the longest run of digits that starts at index p (\d+).
RECURSIVE DigitsEnd(_, _)
DigitsEnd(s, p) == IF IsDigit(At(s, p)) THEN DigitsEnd(s, p + 1) ELSE p

\* Does the literal lit occur in s at index p?
StartsAt(s, p, lit) == \A k \in 1..Len(lit) : At(s, p + k - 1) = lit[k]

(***************************************************************************)
(* DIFF_HUNK_HEADER = /@@ \-(\d+)(,(\d+))?( \+(\d+)(,(\d+)?)?)? @@/         *)
(* tried at index p.  Every digit run is followed by a non-digit in the    *)
(* pattern, so each \d+ takes the longest run; an optional group whose     *)
(* first character is present cannot be skipped, because what follows the  *)
(* group in the pattern starts with a different character.  A group that   *)
(* did not take part in the match is the empty text (undefined).           *)
(* Ends holds the one tuple of the indices e1, e3, e5, e7 where the four   *)
(* digit runs end, each found from the one before it.                      *)
(***************************************************************************)
HeaderMatchAt(s, p) ==
  LET a == p + 4
      Ends == UNION {UNION {UNION {
                {<<e1, e3, e5, e7>> :
                   e7 \in {IF StartsAt(s, e3, <<" ", "+">>) /\ At(s, e5) = ","
                           THEN DigitsEnd(s, e5 + 1) ELSE e5}} :
                   e5 \in {IF StartsAt(s, e3, <<" ", "+">>)
                           THEN DigitsEnd(s, e3 + 2) ELSE e3}} :
                   e3 \in {IF At(s, e1) = "," THEN DigitsEnd(s, e1 + 1) ELSE e1}} :
                   e1 \in {DigitsEnd(s, a)}}
      Match(e1, e3, e5, e7) ==
        LET has2 == At(s, e1) = ","
            has4 == StartsAt(s, e3, <<" ", "+">>)
            has6 == has4 /\ At(s, e5) = ","
        IN [ok |-> /\ StartsAt(s, p, <<"@", "@", " ", "-">>)
                   /\ e1 > a
                   /\ (has2 => e3 > e1 + 1)
                   /\ (has4 => e5 > e3 + 2)
                   /\ StartsAt(s, e7, <<" ", "@", "@">>),
            m1 |-> Substr(s, a, e1 - a),
            m3 |-> IF has2 THEN Substr(s, e1 + 1, e3 - e1 - 1) ELSE <<>>,
            m5 |-> IF has4 THEN Substr(s, e3 + 2, e5 - e3 - 2) ELSE <<>>,
            m7 |-> IF has6 THEN Substr(s, e5 + 1, e7 - e5 - 1) ELSE <<>>]
  IN CHOOSE r \in {Match(q[1], q[2], q[3], q[4]) : q \in Ends} : TRUE

\* The pattern matches at index p (the literal it starts with is looked at
\* first).
HeaderAt(s, p) ==
  StartsAt(s, p, <<"@", "@", " ", "-">>) /\ HeaderMatchAt(s, p).ok

\* DIFF_HUNK_HEADER.test(line): the pattern is not anchored.
HeaderTest(line) == \E p \in 0..(Len(line) - 1) : HeaderAt(line, p)

\* DIFF_HUNK_HEADER.exec(line): the leftmost match.
HeaderExec(line) ==
  LET p == CHOOSE q \in 0..(Len(line) - 1) :
             /\ HeaderAt(line, q)
             /\ \A r \in 0..(q - 1) : ~HeaderAt(line, r)
  IN HeaderMatchAt(line, p)

\* Number(group): the decimal value of the digits; NaN for a group that did
\* not match.  The numerals of the model stay below 2^31.
RECURSIVE Number(_)
Number(ds) ==
  IF ds = <<>> THEN NaN
  ELSE IF Len(ds) = 1 THEN DigitValue(ds[1])
  ELSE 10 * Number(SubSeq(ds, 1, Len(ds) - 1)) + DigitValue(ds[Len(ds)])

\* x | 0: NaN becomes 0; a number below 2^31 is unchanged.
OrZero(x) == IF x = NaN THEN 0 ELSE x

\* JavaScript +: NaN + n is NaN.
NumAdd(x, n) == IF x = NaN THEN NaN ELSE x + n

\* countCarriageReturns(text)
RECURSIVE countCarriageReturns(_)
countCarriageReturns(text) ==
  IF text = <<>> THEN 0
  ELSE (IF Head(text) = CR THEN 1 ELSE 0) + countCarriageReturns(Tail(text))

\* getDiffChangeType(text): by the first character; undefined gives Control.
getDiffChangeType(text) ==
  LET c == At(text, 0)
  IN IF c = " " THEN "Context"
     ELSE IF c = "+" THEN "Add"
     ELSE IF c = "-" THEN "Delete"
     ELSE "Control"

\* new DiffLine(type, oldLineNumber, newLineNumber, positionInHunk, raw)
DiffLine(type, old, new, pos, raw) ==
  [type |-> type, oldLineNumber |-> old, newLineNumber |-> new,
   positionInHunk |-> pos, raw |-> raw, endwithLineBreak |-> TRUE]

\* DiffLine.text: the raw line without its first character.
DiffLineText(d) == Substr(d.raw, 1, Len(d.raw) - 1)

\* new DiffHunk(oldLineNumber, oldLength, newLineNumber, newLength, positionInHunk)
DiffHunk(old, oldLen, new, newLen, pos) ==
  [oldLineNumber |-> old, oldLength |-> oldLen, newLineNumber |-> new,
   newLength |-> newLen, positionInHunk |-> pos, diffLines |-> <<>>]

\* Mutant of LineReaderNext: the cursor is not moved past the "\n" it found.
LineReaderNextOnTerminator(text, idx) ==
  IF idx # -1 /\ idx < Len(text)
  THEN LET nl       == IndexOf(text, LF, idx)
           endIndex == IF nl # -1 THEN nl ELSE Len(text)
           length   == (endIndex - idx)
                       - (IF nl # -1 /\ nl > 0 /\ At(text, nl - 1) = CR THEN 1 ELSE 0)
       IN [done |-> FALSE, value |-> Substr(text, idx, length), index |-> nl]
  ELSE [done |-> TRUE, value |-> <<>>, index |-> idx]

\* Mutant of LineReaderNext: the "\r" of a "\r\n" terminator is left in the
\* line.
LineReaderNextKeepCR(text, idx) ==
  IF idx # -1 /\ idx < Len(text)
  THEN LET nl       == IndexOf(text, LF, idx)
           endIndex == IF nl # -1 THEN nl ELSE Len(text)
       IN [done |-> FALSE, value |-> Substr(text, idx, endIndex - idx),
           index |-> IF nl # -1 THEN nl + 1 ELSE nl]
  ELSE [done |-> TRUE, value |-> <<>>, index |-> idx]

(***************************************************************************)
(* One call of LineReader(text).next() with the generator's cursor at      *)
(* index: the item returned and the cursor afterwards.                     *)
(***************************************************************************)
LineReaderNext(text, idx) ==
  IF idx # -1 /\ idx < Len(text)
  THEN LET nl       == IndexOf(text, LF, idx)
           endIndex == IF nl # -1 THEN nl ELSE Len(text)
           length   == (endIndex - idx)
                       - (IF nl # -1 /\ nl > 0 /\ At(text, nl - 1) = CR THEN 1 ELSE 0)
       IN [done |-> FALSE, value |-> Substr(text, idx, length),
           index |-> IF nl # -1 THEN nl + 1 ELSE nl]
  ELSE [done |-> TRUE, value |-> <<>>, index |-> idx]

(***************************************************************************)
(* State.                                                                  *)
(*   patch, originalContent  the arguments of the call                     *)
(*   pc                      where control is (see the actions)            *)
(*   index                   LineReader: its cursor                        *)
(*   itr                     parseDiffHunk: the last item of the reader    *)
(*   diffHunk                parseDiffHunk: the open hunk, <<>> for null   *)
(*   positionInHunk, oldLine, newLine   parseDiffHunk: counter and cursors *)
(*   diffHunkIter            the consumer: the hunk a yield handed over    *)
(*   diffHunks, right        the consumer: hunks received, lines built     *)
(*   left, lastCommonLine    getModifiedContentFromDiffHunk only           *)
(*   result                  the joined text returned, <<>> before         *)
(*   scanned                 history: the lines the builder has processed  *)
(*   other                   the frame of a second call whose generator is *)
(*                           suspended while this one runs; <<>> when      *)
(*                           there is one call only                        *)
(***************************************************************************)
VARIABLES patch, originalContent, pc, index, itr, diffHunk, positionInHunk,
          oldLine, newLine, diffHunkIter, diffHunks, right, left,
          lastCommonLine, result, scanned, other

vars == <<patch, originalContent, pc, index, itr, diffHunk, positionInHunk,
          oldLine, newLine, diffHunkIter, diffHunks, right, left,
          lastCommonLine, result, scanned, other>>

\* What no step of the running call changes: its arguments and the frame of
\* the other call.
inputVars == <<patch, originalContent, other>>
parserVars == <<index, itr, diffHunk, positionInHunk, oldLine, newLine, scanned>>
consumerVars == <<diffHunkIter, diffHunks, right, left, lastCommonLine, result>>

\* left[j - 1] of JavaScript: undefined outside the array.
Undefined == <<"undefined">>

ArrayAt(arr, i) == IF i >= 0 /\ i < Len(arr) THEN arr[i + 1] ELSE Undefined

\* originalContent.split(/\r?\n/): the segments between terminators; a text
\* without terminator is one segment, also when it is empty.
RECURSIVE Split(_)
Split(text) ==
  LET nl == IndexOf(text, LF, 0)
  IN IF nl = -1 THEN <<text>>
     ELSE LET cut == IF nl > 0 /\ At(text, nl - 1) = CR THEN nl - 1 ELSE nl
          IN <<Substr(text, 0, cut)>> \o Split(Substr(text, nl + 1, Len(text) - nl - 1))

\* right.join('\n'): an undefined element is joined as the empty text.
RECURSIVE Join(_)
Join(lines) ==
  IF lines = <<>> THEN <<>>
  ELSE LET h == IF Head(lines) = Undefined THEN <<>> ELSE Head(lines)
       IN IF Len(lines) = 1 THEN h ELSE h \o <<LF>> \o Join(Tail(lines))

\* for (let j = from; j <= to; j++) right.push(left[j - 1])
RECURSIVE CopyLines(_, _, _)
CopyLines(arr, from, to) ==
  IF from > to THEN <<>>
  ELSE <<ArrayAt(arr, from - 1)>> \o CopyLines(arr, from + 1, to)

\* The loop over diffHunk.diffLines: the text of each Context and Add line.
RECURSIVE PushedTexts(_)
PushedTexts(lines) ==
  IF lines = <<>> THEN <<>>
  ELSE (IF Head(lines).type \in {"Delete", "Control"} THEN <<>>
        ELSE <<DiffLineText(Head(lines))>>) \o PushedTexts(Tail(lines))

(***************************************************************************)
(* parseDiffHunk, one action per pass of its loop and per suspension.      *)
(***************************************************************************)

\* Lines 98-104: the generator starts; the first item of the reader.
ParseStart ==
  /\ pc = "start"
  /\ LET n == LineReaderNext(patch, 0)
     IN /\ itr' = [done |-> n.done, value |-> n.value]
        /\ index' = n.index
  /\ diffHunk' = <<>>
  /\ positionInHunk' = -1
  /\ oldLine' = -1
  /\ newLine' = -1
  /\ pc' = "loop"
  /\ UNCHANGED <<inputVars, consumerVars, scanned>>

\* Mutant of StartPosition: the counter restarts at every header.
StartPositionPerHunk(pos) == 0

\* Lines 114-116: the counter starts at the first header and is kept after.
StartPosition(pos) == IF pos = -1 THEN 0 ELSE pos

\* Mutant of NextPosition: the counter moves at every scanned line, started
\* or not.
NextPositionAlways(pos) == pos + 1

\* Lines 158-160: the counter moves by one once it has started.
NextPosition(pos) == IF pos # -1 THEN pos + 1 ELSE pos

\* Mutant of ClearLineBreak: the flag of a header's DiffLine is never
\* cleared.
ClearLineBreakButHeader(lines) ==
  IF Len(lines) > 1
  THEN [lines EXCEPT ![Len(lines)].endwithLineBreak = FALSE]
  ELSE lines

\* Mutant of ClearLineBreak: the flag of the first line is cleared.
ClearLineBreakOfFirst(lines) ==
  IF Len(lines) > 0
  THEN [lines EXCEPT ![1].endwithLineBreak = FALSE]
  ELSE lines

\* Lines 131-133: the flag of the last line of the open hunk is cleared.
ClearLineBreak(lines) ==
  IF Len(lines) > 0
  THEN [lines EXCEPT ![Len(lines)].endwithLineBreak = FALSE]
  ELSE lines

\* Mutant of LineCount: a scanned line counts as one line.
LineCountOne(line) == 1

\* Line 141: the lines a scanned content line stands for.
LineCount(line) == 1 + countCarriageReturns(line)

\* Lines 158-161: the counter moves; the next item of the reader.
Advance(pos) ==
  /\ positionInHunk' = NextPosition(pos)
  /\ LET n == LineReaderNext(patch, index)
     IN /\ itr' = [done |-> n.done, value |-> n.value]
        /\ index' = n.index
  /\ scanned' = Append(scanned, itr.value)

\* Lines 108-110: a header while a hunk is open: the open hunk is yielded.
YieldOpenHunk ==
  /\ pc = "loop"
  /\ ~itr.done
  /\ HeaderTest(itr.value)
  /\ diffHunk # <<>>
  /\ diffHunkIter' = diffHunk
  /\ pc' = "yield110"
  /\ UNCHANGED <<inputVars, parserVars, diffHunks, right, left, lastCommonLine, result>>

\* Mutant of OpenHunk: the hunk is opened without the DiffLine of its header.
OpenHunkWithoutHeaderLine ==
  /\ \/ pc = "loop" /\ ~itr.done /\ HeaderTest(itr.value) /\ diffHunk = <<>>
     \/ pc = "resume110"
  /\ LET pos == StartPosition(positionInHunk)
         m   == HeaderExec(itr.value)
     IN /\ oldLine' = Number(m.m1)
        /\ newLine' = Number(m.m5)
        /\ diffHunk' = <<DiffHunk(Number(m.m1), OrZero(Number(m.m3)),
                                  Number(m.m5), OrZero(Number(m.m7)), pos)>>
        /\ Advance(pos)
  /\ pc' = "loop"
  /\ UNCHANGED <<inputVars, consumerVars>>

\* Lines 111-126, 158-161: a header opens a hunk (after the yield, if any).
OpenHunk ==
  /\ \/ pc = "loop" /\ ~itr.done /\ HeaderTest(itr.value) /\ diffHunk = <<>>
     \/ pc = "resume110"
  /\ LET pos == StartPosition(positionInHunk)
         m   == HeaderExec(itr.value)
         h   == DiffHunk(Number(m.m1), OrZero(Number(m.m3)),
                         Number(m.m5), OrZero(Number(m.m7)), pos)
     IN /\ oldLine' = Number(m.m1)
        /\ newLine' = Number(m.m5)
        /\ diffHunk' = <<[h EXCEPT !.diffLines =
                            <<DiffLine("Control", -1, -1, pos, itr.value)>>]>>
        /\ Advance(pos)
  /\ pc' = "loop"
  /\ UNCHANGED <<inputVars, consumerVars>>

\* Mutant of ControlLine: a Control line right after a header clears the
\* flag of the last line of the hunk emitted before.
ControlLineClearsEmitted ==
  /\ pc = "loop"
  /\ ~itr.done
  /\ ~HeaderTest(itr.value)
  /\ diffHunk # <<>>
  /\ getDiffChangeType(itr.value) = "Control"
  /\ IF Len(diffHunk[1].diffLines) = 1 /\ diffHunks # <<>>
     THEN /\ diffHunks' = [diffHunks EXCEPT ![Len(diffHunks)].diffLines = ClearLineBreak(@)]
          /\ diffHunk' = diffHunk
     ELSE /\ diffHunks' = diffHunks
          /\ diffHunk' = <<[diffHunk[1] EXCEPT !.diffLines = ClearLineBreak(@)]>>
  /\ Advance(positionInHunk)
  /\ UNCHANGED <<inputVars, diffHunkIter, right, left, lastCommonLine, result, pc,
                 oldLine, newLine>>

\* Mutant of ControlLine: the counter counts DiffLines only, so a Control
\* line does not move it.
ControlLineUncounted ==
  /\ pc = "loop"
  /\ ~itr.done
  /\ ~HeaderTest(itr.value)
  /\ diffHunk # <<>>
  /\ getDiffChangeType(itr.value) = "Control"
  /\ diffHunk' = <<[diffHunk[1] EXCEPT !.diffLines = ClearLineBreak(@)]>>
  /\ Advance(positionInHunk - 1)
  /\ UNCHANGED <<inputVars, consumerVars, pc, oldLine, newLine>>

\* Lines 127-133, 158-161: a Control line in an open hunk clears the flag of
\* the hunk's last line.
ControlLine ==
  /\ pc = "loop"
  /\ ~itr.done
  /\ ~HeaderTest(itr.value)
  /\ diffHunk # <<>>
  /\ getDiffChangeType(itr.value) = "Control"
  /\ diffHunk' = <<[diffHunk[1] EXCEPT !.diffLines = ClearLineBreak(@)]>>
  /\ Advance(positionInHunk)
  /\ UNCHANGED <<inputVars, consumerVars, pc, oldLine, newLine>>

\* Lines 127-129, 134-161: a Context, Add or Delete line in an open hunk.
ContentLine ==
  /\ pc = "loop"
  /\ ~itr.done
  /\ ~HeaderTest(itr.value)
  /\ diffHunk # <<>>
  /\ LET type      == getDiffChangeType(itr.value)
         lineCount == LineCount(itr.value)
     IN /\ type # "Control"
        /\ diffHunk' = <<[diffHunk[1] EXCEPT !.diffLines =
                            Append(@, DiffLine(type,
                                               IF type # "Add" THEN oldLine ELSE -1,
                                               IF type # "Delete" THEN newLine ELSE -1,
                                               positionInHunk, itr.value))]>>
        /\ oldLine' = IF type \in {"Context", "Delete"}
                      THEN NumAdd(oldLine, lineCount) ELSE oldLine
        /\ newLine' = IF type \in {"Context", "Add"}
                      THEN NumAdd(newLine, lineCount) ELSE newLine
  /\ Advance(positionInHunk)
  /\ UNCHANGED <<inputVars, consumerVars, pc>>

\* Lines 108, 127, 158-161: a line that is no header while no hunk is open.
IgnoredLine ==
  /\ pc = "loop"
  /\ ~itr.done
  /\ ~HeaderTest(itr.value)
  /\ diffHunk = <<>>
  /\ Advance(positionInHunk)
  /\ UNCHANGED <<inputVars, consumerVars, pc, diffHunk, oldLine, newLine>>

\* Mutant of EndOfInput: the generator returns without the open hunk.
EndOfInputDropsOpenHunk ==
  /\ pc = "loop"
  /\ itr.done
  /\ diffHunkIter' = <<>>
  /\ pc' = "return"
  /\ UNCHANGED <<inputVars, parserVars, diffHunks, right, left, lastCommonLine, result>>

\* Lines 106, 164-167: the reader is done: the open hunk is yielded, or the
\* generator returns.
EndOfInput ==
  /\ pc = "loop"
  /\ itr.done
  /\ IF diffHunk # <<>>
     THEN diffHunkIter' = diffHunk /\ pc' = "yield165"
     ELSE diffHunkIter' = <<>> /\ pc' = "return"
  /\ UNCHANGED <<inputVars, parserVars, diffHunks, right, left, lastCommonLine, result>>

(***************************************************************************)
(* parsePatch: the consumer that only collects the hunks.                  *)
(***************************************************************************)

\* Lines 175-191: one pass of the loop, then next() resumes the generator.
parsePatchTake ==
  /\ pc \in {"yield110", "yield165"}
  /\ diffHunks' = Append(diffHunks, diffHunkIter[1])
  /\ right' = right \o PushedTexts(diffHunkIter[1].diffLines)
  /\ diffHunkIter' = <<>>
  /\ pc' = IF pc = "yield110" THEN "resume110" ELSE "return"
  /\ UNCHANGED <<inputVars, parserVars, left, lastCommonLine, result>>

\* Line 193: the generator is done; the hunks are returned.
parsePatchReturn ==
  /\ pc = "return"
  /\ pc' = "done"
  /\ UNCHANGED <<inputVars, parserVars, consumerVars>>

(***************************************************************************)
(* getModifiedContentFromDiffHunk: the consumer that rebuilds the content. *)
(***************************************************************************)

\* Lines 205-227: one pass of the loop, then next() resumes the generator.
getModifiedTake ==
  /\ pc \in {"yield110", "yield165"}
  /\ LET hunk         == diffHunkIter[1]
         oriStartLine == hunk.oldLineNumber
     IN /\ diffHunks' = Append(diffHunks, hunk)
        /\ right' = right \o CopyLines(left, lastCommonLine + 1, oriStartLine - 1)
                          \o PushedTexts(hunk.diffLines)
        /\ lastCommonLine' = oriStartLine + hunk.oldLength - 1
  /\ diffHunkIter' = <<>>
  /\ pc' = IF pc = "yield110" THEN "resume110" ELSE "return"
  /\ UNCHANGED <<inputVars, parserVars, left, result>>

\* Mutant of RemainingLines: the copy stops before the last line.
RemainingLinesButLast(arr, last) ==
  IF last < Len(arr) THEN CopyLines(arr, last + 1, Len(arr) - 1) ELSE <<>>

\* Lines 230-234: the original lines after the last line a hunk covered.
RemainingLines(arr, last) ==
  IF last < Len(arr) THEN CopyLines(arr, last + 1, Len(arr)) ELSE <<>>

\* Lines 230-236: the rest of the original, and the join.
getModifiedReturn ==
  /\ pc = "return"
  /\ LET tail == RemainingLines(left, lastCommonLine)
     IN /\ right' = right \o tail
        /\ result' = Join(right \o tail)
  /\ pc' = "done"
  /\ UNCHANGED <<inputVars, parserVars, diffHunkIter, diffHunks, left, lastCommonLine>>

(***************************************************************************)
(* Inputs.  A patch is a sequence of lines joined with "\n", so a line     *)
(* that ends in "\r" is a line ended by "\r\n" unless it is the last one,  *)
(* and an empty last line is a terminator at the end of the text.          *)
(* parsePatch is given up to MaxLines lines of PatchLines.                 *)
(* getModifiedContentFromDiffHunk is given a patch of ReconstructLines and *)
(* an original of OriginalChars; the patch's lines and the original's      *)
(* characters are at most MaxInput together.                               *)
(***************************************************************************)
MaxLines == 4
MaxInput == 4

SeqsUpTo(S, n) == UNION {[1..k -> S] : k \in 0..n}

RECURSIVE TextOf(_)
TextOf(lines) ==
  IF lines = <<>> THEN <<>>
  ELSE IF Len(lines) = 1 THEN lines[1]
  ELSE lines[1] \o <<LF>> \o TextOf(Tail(lines))

HeaderFull    == <<"@", "@", " ", "-", "1", ",", "2", " ", "+", "1", ",", "2", " ", "@", "@">>
HeaderShort   == <<"@", "@", " ", "-", "3", " ", "+", "3", " ", "@", "@">>
HeaderOldOnly == <<"@", "@", " ", "-", "1", ",", "2", " ", "@", "@">>
ContextCR     == <<" ", CR, "a">>
AddB          == <<"+", "b">>
DeleteCR      == <<"-", "a", CR>>
Marker        == <<"\\">>
Empty         == <<>>
ContextHeader == <<" ", "@", "@", " ", "-", "1", " ", "+", "1", " ", "@", "@">>

PatchLines == {HeaderFull, HeaderShort, HeaderOldOnly, ContextCR, AddB, DeleteCR,
               Marker, Empty, ContextHeader}

HeaderOne     == <<"@", "@", " ", "-", "1", ",", "1", " ", "+", "1", ",", "1", " ", "@", "@">>
HeaderOmit    == <<"@", "@", " ", "-", "1", " ", "+", "1", " ", "@", "@">>
HeaderNew     == <<"@", "@", " ", "-", "0", ",", "0", " ", "+", "1", ",", "1", " ", "@", "@">>
ContextA      == <<" ", "a">>
DeleteA       == <<"-", "a">>

ReconstructLines == {HeaderOne, HeaderOmit, HeaderNew, ContextA, AddB, DeleteA, Marker}

OriginalChars == {"a", "b", LF, CR}

InitCall(p, o) ==
  /\ patch = p
  /\ originalContent = o
  /\ pc = "start"
  /\ index = 0
  /\ itr = [done |-> FALSE, value |-> <<>>]
  /\ diffHunk = <<>>
  /\ positionInHunk = -1
  /\ oldLine = -1
  /\ newLine = -1
  /\ diffHunkIter = <<>>
  /\ diffHunks = <<>>
  /\ right = <<>>
  /\ lastCommonLine = 0
  /\ result = <<>>
  /\ scanned = <<>>
  /\ other = <<>>

\* parsePatch(patch), lines 170-174, up to the first next().
Init ==
  \E ls \in SeqsUpTo(PatchLines, MaxLines) :
    /\ InitCall(TextOf(ls), <<>>)
    /\ left = <<>>

\* getModifiedContentFromDiffHunk(originalContent, patch), lines 197-203, up
\* to the first next().
InitR ==
  \E ls \in SeqsUpTo(ReconstructLines, MaxInput) :
    \E o \in SeqsUpTo(OriginalChars, MaxInput - Len(ls)) :
      /\ InitCall(TextOf(ls), o)
      /\ left = Split(o)

Parser == ParseStart \/ YieldOpenHunk \/ OpenHunk \/ ControlLine \/ ContentLine
          \/ IgnoredLine \/ EndOfInput

Next == Parser \/ parsePatchTake \/ parsePatchReturn

NextR == Parser \/ getModifiedTake \/ getModifiedReturn

Spec == Init /\ [][Next]_vars

SpecR == InitR /\ [][NextR]_vars

(***************************************************************************)
(* Views used by the properties.                                           *)
(***************************************************************************)

\* Every line LineReader yields for the text, from cursor idx on.
RECURSIVE ReadAll(_, _)
ReadAll(text, idx) ==
  LET n == LineReaderNext(text, idx)
  IN IF n.done THEN <<>> ELSE <<n.value>> \o ReadAll(text, n.index)

\* The hunks built so far: those handed to the consumer, then the open one.
\* Outside the loop the open hunk is the one last handed over.
BuiltHunks == diffHunks \o diffHunkIter \o (IF pc = "loop" THEN diffHunk ELSE <<>>)

RECURSIVE FlatLines(_)
FlatLines(hunks) ==
  IF hunks = <<>> THEN <<>> ELSE Head(hunks).diffLines \o FlatLines(Tail(hunks))

\* The index in lines of the first header line, 0 if there is none.
FirstHeader(lines) ==
  IF \E i \in 1..Len(lines) : HeaderTest(lines[i])
  THEN CHOOSE i \in 1..Len(lines) :
         HeaderTest(lines[i]) /\ \A j \in 1..(i - 1) : ~HeaderTest(lines[j])
  ELSE 0

FirstChar(line) == IF line = <<>> THEN "" ELSE line[1]

IsContent(line) == FirstChar(line) \in {" ", "+", "-"}

\* The indices, from i on, of the lines that give a DiffLine: the headers
\* and, after the first header, the lines that start with ' ', '+' or '-'.
RECURSIVE Producing(_, _)
Producing(lines, i) ==
  IF i = 0 \/ i > Len(lines) THEN <<>>
  ELSE (IF HeaderTest(lines[i]) \/ IsContent(lines[i]) THEN <<i>> ELSE <<>>)
       \o Producing(lines, i + 1)

\* C2: every DiffLine, header Control lines included, carries as
\* positionInHunk the index of its physical line minus the index of the
\* first header line; the counter never resets at a later header, so the
\* positions strictly increase in emission order across all hunks.
C2_PositionIsLineIndex ==
  LET f == FirstHeader(scanned)
      P == Producing(scanned, f)
      D == FlatLines(BuiltHunks)
  IN /\ Len(D) = Len(P)
     /\ \A k \in 1..Len(D) :
          /\ D[k].raw = scanned[P[k]]
          /\ D[k].positionInHunk = P[k] - f
     /\ \A j, k \in 1..Len(D) : j < k => D[j].positionInHunk < D[k].positionInHunk

\* Two hunks after a line that is no header: the second header, the fourth
\* line scanned, has position 2, whatever the line scanned before the first header.
C2_Witness ==
  /\ pc = "done"
  /\ FirstHeader(scanned) = 2
  /\ Len(diffHunks) = 2
  /\ Len(diffHunks[1].diffLines) = 1
  /\ diffHunks[2].positionInHunk = 2
  /\ Len(diffHunks[2].diffLines) = 1
  /\ Len(scanned) = 4

(***************************************************************************)
(* The patch text format: a header is @@ -O[,L] +O2[,L2] @@ at the start   *)
(* of a line, a content line starts with ' ', '+' or '-', and a marker     *)
(* line ("\ No newline at end of file") starts with a backslash and        *)
(* follows a content line.                                                 *)
(***************************************************************************)
FormatHeader(line) ==
  LET m      == HeaderMatchAt(line, 0)
      newEnd == 4 + Len(m.m1) + (IF m.m3 = <<>> THEN 0 ELSE 1 + Len(m.m3))
                  + 2 + Len(m.m5)
  IN /\ FirstChar(line) = "@"
     /\ m.ok
     /\ m.m5 # <<>>
     /\ (At(line, newEnd) = "," => m.m7 # <<>>)

IsMarker(line) == FirstChar(line) = "\\"

WellFormedSingleHunk(lines) ==
  /\ Len(lines) >= 1
  /\ FormatHeader(lines[1])
  /\ \A i \in 2..Len(lines) :
       \/ IsContent(lines[i])
       \/ IsMarker(lines[i]) /\ i > 2 /\ IsContent(lines[i - 1])

\* Every prefix of a well-formed single-hunk patch is one, so the property
\* is stated of the lines scanned so far.
\* C3 as stated: in a well-formed single-hunk patch the header DiffLine has
\* position 0 and every later DiffLine of a hunk has the position of the
\* DiffLine before it plus one, marker lines or not.
C3_EachPositionOneGreater ==
  WellFormedSingleHunk(scanned) =>
    /\ BuiltHunks # <<>> => BuiltHunks[1].diffLines[1].positionInHunk = 0
    /\ \A i \in 1..Len(BuiltHunks) :
         LET D == BuiltHunks[i].diffLines
         IN \A k \in 2..Len(D) : D[k].positionInHunk = D[k - 1].positionInHunk + 1

\* C3 amended: in a well-formed single-hunk patch the header DiffLine has
\* position 0 and every later DiffLine of a hunk has the position of the
\* DiffLine before it plus one, or plus two when a marker line follows that
\* DiffLine (its endwithLineBreak is false): the marker gives no DiffLine
\* but takes a position.
C3_PositionOneGreaterPlusMarker ==
  WellFormedSingleHunk(scanned) =>
    /\ BuiltHunks # <<>> => BuiltHunks[1].diffLines[1].positionInHunk = 0
    /\ \A i \in 1..Len(BuiltHunks) :
         LET D == BuiltHunks[i].diffLines
         IN \A k \in 2..Len(D) :
              D[k].positionInHunk =
                D[k - 1].positionInHunk + (IF D[k - 1].endwithLineBreak THEN 1 ELSE 2)

\* A well-formed single-hunk patch parsed to the end, with a marker line
\* between two content lines and a content line right after another.
C3_Witness ==
  /\ pc = "done"
  /\ WellFormedSingleHunk(scanned)
  /\ Len(diffHunks) = 1
  /\ LET D == diffHunks[1].diffLines
     IN /\ Len(D) = 3
        /\ ~D[2].endwithLineBreak
        /\ D[3].positionInHunk = 3

\* The lengths a header describes in the patch text format: a length that
\* is left out stands for 1.
DescribedOldLength(line) ==
  LET m == HeaderMatchAt(line, 0) IN IF m.m3 = <<>> THEN 1 ELSE Number(m.m3)

DescribedNewLength(line) ==
  LET m == HeaderMatchAt(line, 0) IN IF m.m7 = <<>> THEN 1 ELSE Number(m.m7)

\* The index of the last line of the body of the header at index i.
RECURSIVE BodyEnd(_, _)
BodyEnd(lines, i) ==
  IF i + 1 > Len(lines) \/ FormatHeader(lines[i + 1]) THEN i
  ELSE BodyEnd(lines, i + 1)

CountFirstChar(lines, from, to, chars) ==
  Cardinality({j \in from..to : FirstChar(lines[j]) \in chars})

\* Headers in the format, each followed by exactly the content lines it
\* describes, where a marker line may follow a content line.
WellFormedPatch(lines) ==
  /\ Len(lines) >= 1
  /\ FormatHeader(lines[1])
  /\ \A i \in 1..Len(lines) :
       \/ /\ FormatHeader(lines[i])
          /\ CountFirstChar(lines, i + 1, BodyEnd(lines, i), {" ", "-"})
               = DescribedOldLength(lines[i])
          /\ CountFirstChar(lines, i + 1, BodyEnd(lines, i), {" ", "+"})
               = DescribedNewLength(lines[i])
       \/ IsContent(lines[i])
       \/ IsMarker(lines[i]) /\ IsContent(lines[i - 1])

CountTypes(hunk, types) ==
  Cardinality({k \in 1..Len(hunk.diffLines) : hunk.diffLines[k].type \in types})

\* No content line holds text that the header pattern matches.
PlainContent(lines) ==
  \A i \in 1..Len(lines) : IsContent(lines[i]) => ~HeaderTest(lines[i])

\* C4: in every hunk emitted from a well-formed patch the Context and Delete
\* DiffLines are as many as the hunk's oldLength and the Context and Add
\* DiffLines as many as its newLength, with or without lengths in the header
\* (stated for patches whose content lines hold no header text).
C4_CountsEqualLengths ==
  (pc = "done" /\ WellFormedPatch(scanned) /\ PlainContent(scanned)) =>
    \A i \in 1..Len(diffHunks) :
      /\ CountTypes(diffHunks[i], {"Context", "Delete"}) = diffHunks[i].oldLength
      /\ CountTypes(diffHunks[i], {"Context", "Add"}) = diffHunks[i].newLength

\* Holds: the same for the headers that give both lengths.  The counts
\* differ from the fields only where a length is left out, which the
\* builder decodes as 0 (line 120, 122) and the format reads as 1.
C4_ExplicitLengths ==
  (/\ pc = "done" /\ WellFormedPatch(scanned) /\ PlainContent(scanned)
   /\ \A i \in 1..Len(scanned) :
        FormatHeader(scanned[i]) =>
          LET m == HeaderMatchAt(scanned[i], 0) IN m.m3 # <<>> /\ m.m7 # <<>>) =>
    \A i \in 1..Len(diffHunks) :
      /\ CountTypes(diffHunks[i], {"Context", "Delete"}) = diffHunks[i].oldLength
      /\ CountTypes(diffHunks[i], {"Context", "Add"}) = diffHunks[i].newLength

\* The line supplies an original start, the literal " +" and a new start.
SuppliesBothStarts(line) ==
  \E p \in 0..(Len(line) - 1) :
    LET m == HeaderMatchAt(line, p) IN m.ok /\ m.m1 # <<>> /\ m.m5 # <<>>

\* C5: a line is treated as a header only when it supplies the original
\* start, the literal " +" and an integer new start; the four fields of
\* every opened hunk are non-negative integers decoded from its header
\* line, and both line cursors hold integers.
C5_HeaderSuppliesBothStarts ==
  /\ \A i \in 1..Len(BuiltHunks) :
       LET h == BuiltHunks[i]
       IN /\ SuppliesBothStarts(h.diffLines[1].raw)
          /\ {h.oldLineNumber, h.oldLength, h.newLineNumber, h.newLength} \subseteq Nat
  /\ oldLine # NaN
  /\ newLine # NaN

\* The builder is about to process, inside an open hunk, a line that is no
\* header and does not start with ' ', '+' or '-'.
AtMarkerLine ==
  /\ pc = "loop"
  /\ ~itr.done
  /\ ~HeaderTest(itr.value)
  /\ diffHunk # <<>>
  /\ ~IsContent(itr.value)

\* C6: inside an open hunk a non-header line that does not start with ' ',
\* '+' or '-' clears endwithLineBreak on the last DiffLine of that hunk and
\* changes nothing else of the hunk, appends no DiffLine, emits no hunk,
\* leaves both line cursors alone and moves the position counter by one.
C6_MarkerStep ==
  [][AtMarkerLine =>
      /\ diffHunk' # <<>>
      /\ LET D == diffHunk[1].diffLines
         IN /\ Len(D) >= 1
            /\ diffHunk'[1] =
                 [diffHunk[1] EXCEPT !.diffLines =
                    [k \in 1..Len(D) |->
                       IF k = Len(D) THEN [D[k] EXCEPT !.endwithLineBreak = FALSE]
                       ELSE D[k]]]
      /\ diffHunks' = diffHunks
      /\ diffHunkIter' = diffHunkIter
      /\ oldLine' = oldLine
      /\ newLine' = newLine
      /\ positionInHunk' = positionInHunk + 1
      /\ scanned' = Append(scanned, itr.value)]_vars

\* A marker line was just processed after a content line of a hunk with two
\* DiffLines: only the content line lost its flag, and the counter is two
\* past its position.
C6_Witness ==
  /\ pc = "loop"
  /\ scanned # <<>>
  /\ IsMarker(scanned[Len(scanned)])
  /\ diffHunk # <<>>
  /\ LET D == diffHunk[1].diffLines
     IN /\ Len(D) = 2
        /\ D[1].endwithLineBreak
        /\ D[2].type = "Delete"
        /\ ~D[2].endwithLineBreak
        /\ positionInHunk = D[2].positionInHunk + 2

\* The carriage returns held in a line.
EmbeddedCR(line) == Cardinality({i \in 1..Len(line) : line[i] = CR})

\* The sum of 1 + embedded carriage returns over the DiffLines 2..(k - 1) of
\* D whose type is in types.
RECURSIVE LinesBefore(_, _, _)
LinesBefore(D, k, types) ==
  IF k <= 2 THEN 0
  ELSE LinesBefore(D, k - 1, types)
       + (IF D[k - 1].type \in types THEN 1 + EmbeddedCR(D[k - 1].raw) ELSE 0)

\* C7: in every hunk the oldLineNumber of a Context or Delete DiffLine is the
\* header's original start plus the sum of 1 + embedded carriage returns
\* over the earlier Context and Delete lines, the newLineNumber of a Context
\* or Add DiffLine is the header's new start plus that sum over the earlier
\* Context and Add lines, and the cursors of the open hunk are the starts
\* plus the sums over all its lines.
C7_LineNumbersAreCursors ==
  /\ \A i \in 1..Len(BuiltHunks) :
       LET h == BuiltHunks[i]
           D == h.diffLines
       IN \A k \in 2..Len(D) :
            /\ D[k].type \in {"Context", "Delete"} =>
                 D[k].oldLineNumber
                   = h.oldLineNumber + LinesBefore(D, k, {"Context", "Delete"})
            /\ D[k].type \in {"Context", "Add"} =>
                 D[k].newLineNumber
                   = NumAdd(h.newLineNumber, LinesBefore(D, k, {"Context", "Add"}))
  /\ (pc = "loop" /\ diffHunk # <<>>) =>
       LET h == diffHunk[1]
           D == h.diffLines
       IN /\ oldLine = h.oldLineNumber
                         + LinesBefore(D, Len(D) + 1, {"Context", "Delete"})
          /\ newLine = NumAdd(h.newLineNumber,
                              LinesBefore(D, Len(D) + 1, {"Context", "Add"}))

\* A Context line with one embedded carriage return gave one DiffLine and
\* moved both cursors by 2: the Delete line after it is numbered start + 2,
\* and the new cursor stands at start + 2.
C7_Witness ==
  /\ pc = "loop"
  /\ diffHunk # <<>>
  /\ LET h == diffHunk[1]
         D == h.diffLines
     IN /\ Len(D) = 3
        /\ D[2].type = "Context"
        /\ EmbeddedCR(D[2].raw) = 1
        /\ D[3].type = "Delete"
        /\ D[3].oldLineNumber = h.oldLineNumber + 2
        /\ newLine = h.newLineNumber + 2
        /\ h.newLineNumber # NaN

\* The indices, from i on, of the lines the builder treats as headers.
RECURSIVE HeaderIndices(_, _)
HeaderIndices(lines, i) ==
  IF i > Len(lines) THEN <<>>
  ELSE (IF HeaderTest(lines[i]) THEN <<i>> ELSE <<>>) \o HeaderIndices(lines, i + 1)

RawLines(hunk) == [k \in 1..Len(hunk.diffLines) |-> hunk.diffLines[k].raw]

\* C8: one hunk per header line, in the order of the headers; each hunk
\* holds the DiffLines of the lines between its header and the next header
\* (or the end of input); inside the loop every hunk but the open one has
\* been emitted, and at the end of input every hunk has been emitted, once.
C8_OneHunkPerHeader ==
  LET H == HeaderIndices(scanned, 1)
  IN /\ Len(BuiltHunks) = Len(H)
     /\ \A n \in 1..Len(BuiltHunks) :
          LET last == IF n < Len(H) THEN H[n + 1] - 1 ELSE Len(scanned)
          IN RawLines(BuiltHunks[n])
               = <<scanned[H[n]]>> \o SelectSeq(SubSeq(scanned, H[n] + 1, last), IsContent)
     /\ pc = "loop" => Len(diffHunks) = Len(H) - Len(diffHunk)
     /\ pc \in {"yield110", "yield165"} => Len(diffHunks) = Len(H) - 1
     /\ pc \in {"return", "done"} =>
          /\ scanned = ReadAll(patch, 0)
          /\ Len(diffHunks) = Len(H)
     /\ \A i, j \in 1..Len(diffHunks) :
          i < j => diffHunks[i].positionInHunk < diffHunks[j].positionInHunk

\* A patch of two hunks parsed to the end: the first was emitted at the
\* second header, the second at the end of input, each with its own line.
C8_Witness ==
  /\ pc = "done"
  /\ Len(scanned) = 4
  /\ Len(diffHunks) = 2
  /\ Len(diffHunks[1].diffLines) = 2
  /\ Len(diffHunks[2].diffLines) = 2
  /\ diffHunks[1].diffLines[2].raw # diffHunks[2].diffLines[2].raw

\* The text with every "\r\n" turned into "\n".
RECURSIVE NormalizeNewlines(_)
NormalizeNewlines(text) ==
  IF text = <<>> THEN <<>>
  ELSE IF Len(text) >= 2 /\ text[1] = CR /\ text[2] = LF
       THEN <<LF>> \o NormalizeNewlines(SubSeq(text, 3, Len(text)))
       ELSE <<text[1]>> \o NormalizeNewlines(Tail(text))

NoHeaderLine(text) ==
  LET lines == ReadAll(text, 0) IN \A i \in 1..Len(lines) : ~HeaderTest(lines[i])

\* C9: with a patch that holds no header line the reconstruction returns
\* the original's lines joined with "\n": no hunk was taken, every line of
\* the original was copied once and in order (one line more than the "\n"
\* of the original, none undefined), and the text returned is the original
\* with "\r\n" turned into "\n".
C9_ZeroHunksKeepOriginal ==
  (pc = "done" /\ NoHeaderLine(patch)) =>
    /\ diffHunks = <<>>
    /\ right = left
    /\ Len(right) = 1 + Cardinality({i \in 1..Len(originalContent) :
                                       originalContent[i] = LF})
    /\ \A k \in 1..Len(right) :
         right[k] # Undefined /\ \A i \in 1..Len(right[k]) : right[k][i] # LF
    /\ result = NormalizeNewlines(originalContent)

\* A patch of lines without header and an original of two lines, the first
\* ended by "\r\n": the text returned differs from the original by the
\* terminator.
C9_Witness ==
  /\ pc = "done"
  /\ NoHeaderLine(patch)
  /\ scanned # <<>>
  /\ Len(right) = 2
  /\ right[2] # <<>>
  /\ result # originalContent

(***************************************************************************)
(* What a well-formed patch says, read by the patch text format: a hunk    *)
(* -O,L replaces the original lines O..O+L-1 by its new side; a hunk -O,0  *)
(* inserts its new side after original line O.                             *)
(***************************************************************************)
TextAfterPrefix(line) == SubSeq(line, 2, Len(line))

RECURSIVE SideTexts(_, _)
SideTexts(body, chars) ==
  IF body = <<>> THEN <<>>
  ELSE (IF FirstChar(Head(body)) \in chars THEN <<TextAfterPrefix(Head(body))>> ELSE <<>>)
       \o SideTexts(Tail(body), chars)

RECURSIVE FormatHunks(_, _)
FormatHunks(lines, i) ==
  IF i > Len(lines) THEN <<>>
  ELSE IF FormatHeader(lines[i])
       THEN LET len  == DescribedOldLength(lines[i])
                body == SubSeq(lines, i + 1, BodyEnd(lines, i))
                O    == Number(HeaderMatchAt(lines[i], 0).m1)
            IN <<[before  |-> IF len = 0 THEN O ELSE O - 1,
                  len     |-> len,
                  oldSide |-> SideTexts(body, {" ", "-"}),
                  newSide |-> SideTexts(body, {" ", "+"})]>>
               \o FormatHunks(lines, i + 1)
       ELSE FormatHunks(lines, i + 1)

\* The hunks are ascending, do not overlap, and their old sides are the
\* original lines they cover.
RECURSIVE Applies(_, _, _)
Applies(hs, orig, covered) ==
  IF hs = <<>> THEN TRUE
  ELSE LET h == Head(hs)
       IN /\ h.before >= covered
          /\ h.before + h.len <= Len(orig)
          /\ h.oldSide = SubSeq(orig, h.before + 1, h.before + h.len)
          /\ Applies(Tail(hs), orig, h.before + h.len)

\* The new line sequence.
RECURSIVE Applied(_, _, _)
Applied(hs, orig, covered) ==
  IF hs = <<>> THEN SubSeq(orig, covered + 1, Len(orig))
  ELSE LET h == Head(hs)
       IN SubSeq(orig, covered + 1, h.before) \o h.newSide
          \o Applied(Tail(hs), orig, h.before + h.len)

PatchApplies ==
  /\ WellFormedPatch(scanned)
  /\ PlainContent(scanned)
  /\ Applies(FormatHunks(scanned, 1), left, 0)

\* C1: for a well-formed patch that turns the original lines into a new line
\* sequence, the reconstruction returns that sequence joined with "\n",
\* also for a hunk at the start of the file, a pure addition with original
\* range 0,0 and a header without lengths.
C1_ReturnsNewContent ==
  (pc = "done" /\ PatchApplies) =>
    /\ right = Applied(FormatHunks(scanned, 1), left, 0)
    /\ result = TextOf(Applied(FormatHunks(scanned, 1), left, 0))

\* Holds: the same for the patches whose headers give both lengths and an
\* original start of at least 1; there the reconstruction is the new content.
C1_ExplicitLengthsFromLineOne ==
  (/\ pc = "done"
   /\ PatchApplies
   /\ \A i \in 1..Len(scanned) :
        FormatHeader(scanned[i]) =>
          LET m == HeaderMatchAt(scanned[i], 0)
          IN m.m3 # <<>> /\ m.m7 # <<>> /\ Number(m.m1) >= 1) =>
    /\ right = Applied(FormatHunks(scanned, 1), left, 0)
    /\ result = TextOf(Applied(FormatHunks(scanned, 1), left, 0))

\* A one-line original whose line a hunk with both lengths replaces.
C1_ExplicitLengthsWitness ==
  /\ pc = "done"
  /\ PatchApplies
  /\ Len(diffHunks) = 1
  /\ diffHunks[1].oldLength = 1
  /\ Len(diffHunks[1].diffLines) = 3
  /\ result = <<"b">>

\* Violated: the same for the patches whose headers give both lengths, a
\* pure addition with original range 0,0 among them.  For -0,0 the last
\* covered line is -1 (line 214) and the copy after the hunk starts with
\* left[-1], an undefined element that is joined as an empty line.
C1_ExplicitLengths ==
  (/\ pc = "done"
   /\ PatchApplies
   /\ \A i \in 1..Len(scanned) :
        FormatHeader(scanned[i]) =>
          LET m == HeaderMatchAt(scanned[i], 0) IN m.m3 # <<>> /\ m.m7 # <<>>) =>
    /\ right = Applied(FormatHunks(scanned, 1), left, 0)
    /\ result = TextOf(Applied(FormatHunks(scanned, 1), left, 0))

\* The hunks are in ascending order of original start and do not overlap.
AscendingHunks(hunks) ==
  \A i \in 1..(Len(hunks) - 1) :
    hunks[i + 1].oldLineNumber >= hunks[i].oldLineNumber + hunks[i].oldLength

\* The original lines numbered from..to that exist.
ExistingLines(orig, from, to) ==
  SubSeq(orig, IF from < 1 THEN 1 ELSE from, IF to > Len(orig) THEN Len(orig) ELSE to)

\* The splice: per hunk the original lines lastCovered+1..start-1, then the
\* Context and Add texts; after the last hunk the lines beyond lastCovered.
RECURSIVE Splice(_, _, _)
Splice(hunks, orig, lastCovered) ==
  IF hunks = <<>> THEN ExistingLines(orig, lastCovered + 1, Len(orig))
  ELSE LET h == Head(hunks)
       IN ExistingLines(orig, lastCovered + 1, h.oldLineNumber - 1)
          \o SideTexts(RawLines(h), {" ", "+"})
          \o Splice(Tail(hunks), orig, h.oldLineNumber + h.oldLength - 1)

\* C10: for hunks in ascending, non-overlapping order the lines built are,
\* per hunk, the original lines lastCovered+1..start-1 and the hunk's
\* Context and Add texts, then the original lines beyond lastCovered; every
\* line is an original line or such a text, none from outside the
\* original's index range.
C10_SpliceWithinOriginal ==
  (pc = "done" /\ AscendingHunks(diffHunks)) =>
    /\ right = Splice(diffHunks, left, 0)
    /\ \A k \in 1..Len(right) : right[k] # Undefined

(***************************************************************************)
(* Lines before the first header.                                          *)
(***************************************************************************)

\* No line processed so far was taken as a header.
NoHeaderScanned == \A i \in 1..Len(scanned) : ~HeaderTest(scanned[i])

\* C11: the lines scanned before the first header are ignored: while no
\* header has been processed there is no hunk, open or emitted, both
\* cursors and the position counter are as the call set them (-1, not
\* started); the first hunk, whatever was scanned before its header, has
\* positionInHunk 0 and starts with that header; and a patch without header
\* line ends with no hunk and the counter never started.
C11_LinesBeforeFirstHeaderIgnored ==
  /\ (pc # "start" /\ NoHeaderScanned) =>
       /\ BuiltHunks = <<>>
       /\ diffHunk = <<>>
       /\ positionInHunk = -1
       /\ oldLine = -1
       /\ newLine = -1
  /\ BuiltHunks # <<>> =>
       /\ BuiltHunks[1].positionInHunk = 0
       /\ BuiltHunks[1].diffLines[1].positionInHunk = 0
       /\ BuiltHunks[1].diffLines[1].raw = scanned[FirstHeader(scanned)]
  /\ (pc \in {"return", "done"} /\ NoHeaderScanned) =>
       /\ scanned = ReadAll(patch, 0)
       /\ diffHunks = <<>>
       /\ positionInHunk = -1

\* Two lines that would be content inside a hunk come before the only
\* header: the parse ends with one hunk at position 0 that holds the header
\* alone.
C11_Witness ==
  /\ pc = "done"
  /\ Len(scanned) = 3
  /\ IsContent(scanned[1])
  /\ IsContent(scanned[2])
  /\ ~HeaderTest(scanned[1])
  /\ ~HeaderTest(scanned[2])
  /\ Len(diffHunks) = 1
  /\ diffHunks[1].positionInHunk = 0
  /\ Len(diffHunks[1].diffLines) = 1

(***************************************************************************)
(* The DiffLine of the header.                                             *)
(***************************************************************************)

\* C12: every hunk, emitted or open, has at least one DiffLine; the first
\* is a Control DiffLine with both line numbers -1, the raw text of the
\* hunk's header line and the positionInHunk of the hunk; no other DiffLine
\* of the hunk is a Control DiffLine.
C12_FirstLineIsHeaderControl ==
  LET H == HeaderIndices(scanned, 1)
  IN \A n \in 1..Len(BuiltHunks) :
       LET h == BuiltHunks[n]
           D == h.diffLines
       IN /\ Len(D) >= 1
          /\ D[1].type = "Control"
          /\ D[1].oldLineNumber = -1
          /\ D[1].newLineNumber = -1
          /\ n <= Len(H)
          /\ D[1].raw = scanned[H[n]]
          /\ D[1].positionInHunk = h.positionInHunk
          /\ \A k \in 2..Len(D) : D[k].type \in {"Context", "Add", "Delete"}

\* Two hunks were emitted; the second has a different header than the first,
\* a position after it, and three DiffLines of which only the first is a
\* Control DiffLine.
C12_Witness ==
  /\ pc = "done"
  /\ Len(diffHunks) = 2
  /\ diffHunks[1].diffLines[1].raw # diffHunks[2].diffLines[1].raw
  /\ diffHunks[2].positionInHunk = 1
  /\ diffHunks[2].diffLines[1].positionInHunk = 1
  /\ Len(diffHunks[2].diffLines) = 3
  /\ diffHunks[2].diffLines[2].type = "Add"
  /\ diffHunks[2].diffLines[3].type = "Delete"

(***************************************************************************)
(* LineReader on its own: a caller that takes every line of a text of up   *)
(* to MaxText characters of TextChars.  pc is "reading" while the caller   *)
(* asks for lines and "read" once the reader is done; scanned holds the    *)
(* lines yielded so far.                                                   *)
(***************************************************************************)
MaxText == 5

TextChars == {"a", LF, CR}

InitL ==
  \E t \in SeqsUpTo(TextChars, MaxText) :
    /\ InitCall(t, <<>>)
    /\ left = <<>>

\* Line 77: the generator starts with its cursor at 0.
ReaderStart ==
  /\ pc = "start"
  /\ index' = 0
  /\ pc' = "reading"
  /\ UNCHANGED <<inputVars, consumerVars, itr, diffHunk, positionInHunk, oldLine,
                 newLine, scanned>>

\* Lines 79-93: one pass of the loop: a line is yielded.
ReaderYield ==
  /\ pc = "reading"
  /\ LET n == LineReaderNext(patch, index)
     IN /\ ~n.done
        /\ itr' = [done |-> FALSE, value |-> n.value]
        /\ index' = n.index
        /\ scanned' = Append(scanned, n.value)
  /\ UNCHANGED <<inputVars, consumerVars, pc, diffHunk, positionInHunk, oldLine,
                 newLine>>

\* Lines 79, 95: the loop's condition fails: the generator is done.
ReaderReturn ==
  /\ pc = "reading"
  /\ LET n == LineReaderNext(patch, index)
     IN /\ n.done
        /\ itr' = [done |-> TRUE, value |-> n.value]
  /\ pc' = "read"
  /\ UNCHANGED <<inputVars, consumerVars, index, diffHunk, positionInHunk, oldLine,
                 newLine, scanned>>

NextL == ReaderStart \/ ReaderYield \/ ReaderReturn

SpecL == InitL /\ [][NextL]_vars

\* The 1-based indices of the "\n" of a text, ascending.
RECURSIVE LFIndices(_, _)
LFIndices(text, i) ==
  IF i > Len(text) THEN <<>>
  ELSE (IF text[i] = LF THEN <<i>> ELSE <<>>) \o LFIndices(text, i + 1)

\* The lines of a text, said without a cursor: line k lies between the
\* (k-1)-th and the k-th "\n"; a "\r" directly before the k-th "\n" belongs
\* to the terminator; what follows the last "\n", if anything, is the last
\* line.
LinesOf(text) ==
  LET P == LFIndices(text, 1)
      n == Len(P) + (IF text # <<>> /\ text[Len(text)] # LF THEN 1 ELSE 0)
  IN [k \in 1..n |->
        LET from == IF k = 1 THEN 1 ELSE P[k - 1] + 1
            to   == IF k <= Len(P) THEN P[k] - 1 ELSE Len(text)
        IN SubSeq(text, from,
                  IF k <= Len(P) /\ to >= from /\ text[to] = CR THEN to - 1 ELSE to)]

CountChar(s, c) == Cardinality({i \in 1..Len(s) : s[i] = c})

RECURSIVE TotalLength(_)
TotalLength(lines) ==
  IF lines = <<>> THEN 0 ELSE Len(Head(lines)) + TotalLength(Tail(lines))

\* C13: LineReader yields the segments between terminators in order, each
\* without its "\n" or "\r\n" and otherwise whole: the lines yielded so far
\* are the first lines of the text; once the reader is done they are all of
\* them, as many as the text has "\n", plus one if the text is not empty and
\* does not end in "\n"; no line holds a "\n"; the characters yielded are
\* those of the text but the "\n" and the "\r" directly before a "\n".
C13_LinesBetweenTerminators ==
  LET E == LinesOf(patch)
  IN /\ Len(scanned) <= Len(E)
     /\ \A k \in 1..Len(scanned) : scanned[k] = E[k]
     /\ pc = "read" =>
          /\ scanned = E
          /\ Len(scanned) = CountChar(patch, LF)
                            + (IF patch # <<>> /\ patch[Len(patch)] # LF THEN 1 ELSE 0)
          /\ \A k \in 1..Len(scanned) : CountChar(scanned[k], LF) = 0
          /\ TotalLength(scanned)
               = Len(patch) - CountChar(patch, LF)
                 - Cardinality({i \in 2..Len(patch) :
                                  patch[i] = LF /\ patch[i - 1] = CR})

\* "a\ra\r\n" was read to the end: one line, "a\ra": the "\r\n" at the end
\* was stripped and gave no empty line after it, the "\r" inside stayed.
C13_Witness ==
  /\ pc = "read"
  /\ patch = <<"a", CR, "a", CR, LF>>
  /\ scanned = <<<<"a", CR, "a">>>>

(***************************************************************************)
(* Line numbers by type.                                                   *)
(***************************************************************************)

\* JavaScript >= on numbers: false when either side is NaN.
NumGe(x, y) == x # NaN /\ y # NaN /\ x >= y

\* A line number that is present: a number, and not the -1 of "absent".
Present(x) == x # NaN /\ x # -1

\* What C14 says of the DiffLines of hunk h after the header's.
LineNumbersByType(h) ==
  \A k \in 2..Len(h.diffLines) :
    LET d == h.diffLines[k]
    IN /\ d.type = "Add" =>
            d.oldLineNumber = -1 /\ NumGe(d.newLineNumber, h.newLineNumber)
       /\ d.type = "Delete" =>
            d.newLineNumber = -1 /\ NumGe(d.oldLineNumber, h.oldLineNumber)
       /\ d.type = "Context" =>
            Present(d.oldLineNumber) /\ Present(d.newLineNumber)

\* C14: in every hunk an Add DiffLine has oldLineNumber -1 and a
\* newLineNumber at or after the header's new start, a Delete DiffLine has
\* newLineNumber -1 and an oldLineNumber at or after the header's original
\* start, and a Context DiffLine has both line numbers present.
C14_LineNumbersByType ==
  \A n \in 1..Len(BuiltHunks) : LineNumbersByType(BuiltHunks[n])

\* C14 for the hunks whose header gave a new start: there the statement
\* holds.
C14_WhenNewStartGiven ==
  \A n \in 1..Len(BuiltHunks) :
    BuiltHunks[n].newLineNumber # NaN => LineNumbersByType(BuiltHunks[n])

\* A hunk whose header gave both starts, with an Add line after a Context
\* line that stands for two lines: the Add line is numbered two after the
\* new start.
C14_WhenNewStartGivenWitness ==
  /\ pc = "done"
  /\ Len(diffHunks) = 1
  /\ Len(diffHunks[1].diffLines) = 4
  /\ diffHunks[1].diffLines[2].type = "Context"
  /\ diffHunks[1].diffLines[3].type = "Add"
  /\ diffHunks[1].diffLines[3].newLineNumber = diffHunks[1].newLineNumber + 2
  /\ diffHunks[1].diffLines[4].type = "Delete"
  /\ diffHunks[1].diffLines[4].oldLineNumber = diffHunks[1].oldLineNumber + 2

(***************************************************************************)
(* Termination.  parsePatch runs the generator to its end in one           *)
(* synchronous call, so a step that can be taken is taken: SpecF is Spec's *)
(* next-state relation with weak fairness, on patches of up to            *)
(* MaxFairLines lines of TerminationLines: a header, a header cut short,   *)
(* a marker, an empty line and a content line.                             *)
(***************************************************************************)
MaxFairLines == 3

HeaderBare   == <<"@", "@", " ", "-", "1", " ", "@", "@">>
HeaderBroken == <<"@", "@", " ", "-", "1">>

TerminationLines == {HeaderBare, HeaderBroken, Marker, Empty, AddB}

InitF ==
  \E ls \in SeqsUpTo(TerminationLines, MaxFairLines) :
    /\ InitCall(TextOf(ls), <<>>)
    /\ left = <<>>

SpecF == InitF /\ [][Next]_vars /\ WF_vars(Next)

\* Where the reader stands in the text: indexOf's -1 ("no further
\* terminator") ends the loop of line 79 as the end of the text does.
ReaderCursor(idx) == IF idx = -1 THEN Len(patch) ELSE idx

\* The step calls lineReader.next(): line 100, or line 161 after a line was
\* processed.
CallsReader == pc = "start" \/ scanned' # scanned

\* A step of the reader and of the builder's loop: a processed line is the
\* item last read, taken once; a call that yields a line moves the reader
\* forward, by at least the line's length and not past the end of the text;
\* a call that finds the reader done leaves the cursor at the end; no other
\* step touches the reader.
ReaderAdvances ==
  /\ scanned' # scanned => ~itr.done /\ scanned' = Append(scanned, itr.value)
  /\ (CallsReader /\ ~itr'.done) =>
       /\ index # -1
       /\ index < Len(patch)
       /\ ReaderCursor(index') > index
       /\ ReaderCursor(index') <= Len(patch)
       /\ Len(itr'.value) <= ReaderCursor(index') - index
       /\ itr'.value = Substr(patch, index, Len(itr'.value))
  /\ (CallsReader /\ itr'.done) =>
       /\ index' = index
       /\ ReaderCursor(index) >= Len(patch)
  /\ ~CallsReader => index' = index /\ itr' = itr

\* The places where the code reads through a value that must be there:
\* matches[...] at lines 119-122 (the line passed the test of line 108, also
\* after the generator was resumed), and the hunk handed to the consumer
\* (lines 176-179).
NoFault ==
  /\ pc = "resume110" => ~itr.done /\ HeaderTest(itr.value) /\ diffHunk # <<>>
  /\ pc \in {"yield110", "yield165"} => diffHunkIter # <<>>
  /\ pc \in {"start", "loop", "resume110", "yield110", "yield165", "return", "done"}

\* C15: scanning and parsing end without a fault on every text: the reader
\* moves forward at every line it yields, the builder processes each line
\* the reader yields once, no state reads a missing value, and every call
\* comes to its end (so no state short of the end is stuck), having
\* processed every line of the text.
C15_TerminatesWithoutFault ==
  /\ [][ReaderAdvances]_vars
  /\ []NoFault
  /\ <>(pc = "done" /\ scanned = ReadAll(patch, 0) /\ itr.done)

\* A parse that ended after a marker directly after a header and a header
\* cut short: one hunk, three lines processed.
C15_Witness ==
  /\ pc = "done"
  /\ scanned = <<HeaderBare, Marker, HeaderBroken>>
  /\ Len(diffHunks) = 1
  /\ Len(diffHunks[1].diffLines) = 1
  /\ itr.done

(***************************************************************************)
(* Emitted hunks.  A yield hands the consumer the object the builder's     *)
(* variable diffHunk refers to; from the yield until line 111 (or for      *)
(* good, after the yield of line 165) diffHunk and the emitted hunk are    *)
(* one object, so a write through diffHunk in that time would show in the  *)
(* emitted hunk.                                                           *)
(***************************************************************************)

\* The builder's variable refers to a hunk that was emitted.
Emitted == pc \in {"yield110", "resume110", "yield165", "return", "done"}

\* hunk2 is hunk with one DiffLine appended.
LineAppended(hunk, hunk2) ==
  /\ Len(hunk2.diffLines) = Len(hunk.diffLines) + 1
  /\ hunk2 = [hunk EXCEPT !.diffLines = Append(@, hunk2.diffLines[Len(hunk2.diffLines)])]

\* hunk2 is hunk with endwithLineBreak of its last DiffLine set to false.
LastFlagCleared(hunk, hunk2) ==
  /\ Len(hunk.diffLines) >= 1
  /\ hunk2 = [hunk EXCEPT !.diffLines[Len(hunk.diffLines)].endwithLineBreak = FALSE]

\* C16: a hunk handed to the consumer is never changed afterwards: the
\* hunks received stay as they are and only grow by the hunk handed over;
\* the builder writes to no hunk it has emitted (it replaces it by a new
\* hunk at the next header, or leaves it); a hunk still open changes only
\* by a DiffLine appended or by the flag of its last DiffLine cleared; and
\* a line that is no header never changes the hunks emitted.
C16_EmittedHunksFrozen ==
  [][/\ Len(diffHunks') >= Len(diffHunks)
     /\ \A n \in 1..Len(diffHunks) : diffHunks'[n] = diffHunks[n]
     /\ diffHunks' # diffHunks =>
          /\ diffHunkIter # <<>>
          /\ diffHunks' = Append(diffHunks, diffHunkIter[1])
     /\ diffHunkIter' # diffHunkIter =>
          \/ diffHunkIter = <<>> /\ diffHunkIter' = diffHunk /\ diffHunk' = diffHunk
          \/ diffHunkIter' = <<>> /\ diffHunks' = Append(diffHunks, diffHunkIter[1])
     /\ pc \in {"yield110", "yield165"} => diffHunkIter = diffHunk
     /\ (Emitted /\ diffHunk' # diffHunk) =>
          /\ pc = "resume110"
          /\ diffHunk[1] = diffHunks[Len(diffHunks)]
          /\ Len(diffHunk'[1].diffLines) = 1
          /\ diffHunk'[1].diffLines[1].raw = itr.value
          /\ diffHunks' = diffHunks
     /\ (~Emitted /\ diffHunk # <<>> /\ diffHunk' # diffHunk) =>
          /\ diffHunk' # <<>>
          /\ \/ LineAppended(diffHunk[1], diffHunk'[1])
             \/ LastFlagCleared(diffHunk[1], diffHunk'[1])
     /\ (pc = "loop" /\ ~itr.done /\ ~HeaderTest(itr.value)) =>
          diffHunks' = diffHunks /\ diffHunkIter' = diffHunkIter]_vars

\* A marker was processed right after the second header: the first hunk,
\* emitted at that header and received, still has the flag of its last line
\* set; the flag cleared is that of the header line of the open hunk.
C16_Witness ==
  /\ pc = "loop"
  /\ Len(scanned) = 4
  /\ IsMarker(scanned[4])
  /\ Len(diffHunks) = 1
  /\ Len(diffHunks[1].diffLines) = 2
  /\ diffHunks[1].diffLines[2].endwithLineBreak
  /\ diffHunk # <<>>
  /\ Len(diffHunk[1].diffLines) = 1
  /\ ~diffHunk[1].diffLines[1].endwithLineBreak

(***************************************************************************)
(* Two lazy parses.  A caller holds two generators, each with a loop that  *)
(* collects its hunks (lines 175-191), and advances now one, now the       *)
(* other.  JavaScript runs a next() to the generator's next yield, so the  *)
(* caller can turn to the other generator only while this one is           *)
(* suspended or done.  The variables hold the frame of the call that       *)
(* runs; other holds the frame of the call that waits.  The header pattern *)
(* of line 63 has no g or y flag, so test and exec neither read nor write  *)
(* its lastIndex: HeaderTest and HeaderExec depend on the line alone.      *)
(***************************************************************************)
MaxPairLines == 2

PairLines == {HeaderShort, AddB, Marker}

\* The locals of a call, lines 98-104 and 170-174.
Frame(p, c, ix, it, dh, pos, ol, nl, dhi, dhs, r, sc) ==
  [patch |-> p, pc |-> c, index |-> ix, itr |-> it, diffHunk |-> dh,
   positionInHunk |-> pos, oldLine |-> ol, newLine |-> nl, diffHunkIter |-> dhi,
   diffHunks |-> dhs, right |-> r, scanned |-> sc]

\* Mutant of Switch: the position counter is one variable for both calls.
SwitchSharedCounter ==
  /\ pc \in {"start", "yield110", "yield165", "return", "done"}
  /\ other # <<>>
  /\ other.pc # "done"
  /\ other' = Frame(patch, pc, index, itr, diffHunk, positionInHunk, oldLine,
                    newLine, diffHunkIter, diffHunks, right, scanned)
  /\ patch' = other.patch
  /\ pc' = other.pc
  /\ index' = other.index
  /\ itr' = other.itr
  /\ diffHunk' = other.diffHunk
  /\ oldLine' = other.oldLine
  /\ newLine' = other.newLine
  /\ diffHunkIter' = other.diffHunkIter
  /\ diffHunks' = other.diffHunks
  /\ right' = other.right
  /\ scanned' = other.scanned
  /\ UNCHANGED <<positionInHunk, originalContent, left, lastCommonLine, result>>

\* The caller turns to its other generator: the frame that ran is kept as
\* it is, the frame that waited is the one that runs.
Switch ==
  /\ pc \in {"start", "yield110", "yield165", "return", "done"}
  /\ other # <<>>
  /\ other.pc # "done"
  /\ other' = Frame(patch, pc, index, itr, diffHunk, positionInHunk, oldLine,
                    newLine, diffHunkIter, diffHunks, right, scanned)
  /\ patch' = other.patch
  /\ pc' = other.pc
  /\ index' = other.index
  /\ itr' = other.itr
  /\ diffHunk' = other.diffHunk
  /\ positionInHunk' = other.positionInHunk
  /\ oldLine' = other.oldLine
  /\ newLine' = other.newLine
  /\ diffHunkIter' = other.diffHunkIter
  /\ diffHunks' = other.diffHunks
  /\ right' = other.right
  /\ scanned' = other.scanned
  /\ UNCHANGED <<originalContent, left, lastCommonLine, result>>

\* Two calls, neither started.
Init2 ==
  \E ls, ms \in SeqsUpTo(PairLines, MaxPairLines) :
    /\ patch = TextOf(ls)
    /\ originalContent = <<>>
    /\ pc = "start"
    /\ index = 0
    /\ itr = [done |-> FALSE, value |-> <<>>]
    /\ diffHunk = <<>>
    /\ positionInHunk = -1
    /\ oldLine = -1
    /\ newLine = -1
    /\ diffHunkIter = <<>>
    /\ diffHunks = <<>>
    /\ right = <<>>
    /\ left = <<>>
    /\ lastCommonLine = 0
    /\ result = <<>>
    /\ scanned = <<>>
    /\ other = Frame(TextOf(ms), "start", 0, [done |-> FALSE, value |-> <<>>], <<>>,
                     -1, -1, -1, <<>>, <<>>, <<>>, <<>>)

Next2 == Parser \/ parsePatchTake \/ parsePatchReturn \/ Switch

Spec2 == Init2 /\ [][Next2]_vars

(***************************************************************************)
(* parseDiffHunk run alone to its end, as a function of the text: the      *)
(* builder's locals after each line, and the hunks in the order of their   *)
(* yields.                                                                 *)
(***************************************************************************)

\* Lines 107-161: one pass of the loop on the locals b.
BuilderPass(b, line) ==
  IF HeaderTest(line)
  THEN LET pos == StartPosition(b.positionInHunk)
           m   == HeaderExec(line)
           h   == DiffHunk(Number(m.m1), OrZero(Number(m.m3)),
                           Number(m.m5), OrZero(Number(m.m7)), pos)
       IN [yielded |-> b.yielded \o b.diffHunk,
           diffHunk |-> <<[h EXCEPT !.diffLines =
                             <<DiffLine("Control", -1, -1, pos, line)>>]>>,
           positionInHunk |-> NextPosition(pos),
           oldLine |-> Number(m.m1),
           newLine |-> Number(m.m5)]
  ELSE IF b.diffHunk # <<>>
  THEN LET type      == getDiffChangeType(line)
           lineCount == LineCount(line)
       IN IF type = "Control"
          THEN [b EXCEPT !.diffHunk = <<[b.diffHunk[1] EXCEPT
                                           !.diffLines = ClearLineBreak(@)]>>,
                         !.positionInHunk = NextPosition(@)]
          ELSE [b EXCEPT !.diffHunk = <<[b.diffHunk[1] EXCEPT !.diffLines =
                             Append(@, DiffLine(type,
                                                IF type # "Add" THEN b.oldLine ELSE -1,
                                                IF type # "Delete" THEN b.newLine ELSE -1,
                                                b.positionInHunk, line))]>>,
                         !.oldLine = IF type \in {"Context", "Delete"}
                                     THEN NumAdd(@, lineCount) ELSE @,
                         !.newLine = IF type \in {"Context", "Add"}
                                     THEN NumAdd(@, lineCount) ELSE @,
                         !.positionInHunk = NextPosition(@)]
  ELSE [b EXCEPT !.positionInHunk = NextPosition(@)]

\* Lines 100-162: the locals after the lines given.
RECURSIVE BuilderAfter(_)
BuilderAfter(lines) ==
  IF lines = <<>>
  THEN [yielded |-> <<>>, diffHunk |-> <<>>, positionInHunk |-> -1,
        oldLine |-> -1, newLine |-> -1]
  ELSE BuilderPass(BuilderAfter(SubSeq(lines, 1, Len(lines) - 1)), lines[Len(lines)])

\* Lines 97-167: every hunk the generator yields for the text.
parseDiffHunkAlone(text) ==
  LET b == BuilderAfter(ReadAll(text, 0)) IN b.yielded \o b.diffHunk

\* C17: with two lazy parses advanced in any interleaving, each call ends
\* with the hunks parseDiffHunk yields for its own text when run alone, and
\* at every moment has received a prefix of them; no step of one call
\* changes the frame of the other.
C17_InterleavedParsesAsAlone ==
  LET mine   == parseDiffHunkAlone(patch)
      theirs == IF other = <<>> THEN <<>> ELSE parseDiffHunkAlone(other.patch)
  IN /\ Len(diffHunks) <= Len(mine)
     /\ diffHunks = SubSeq(mine, 1, Len(diffHunks))
     /\ pc = "done" => diffHunks = mine
     /\ other # <<>> =>
          /\ Len(other.diffHunks) <= Len(theirs)
          /\ other.diffHunks = SubSeq(theirs, 1, Len(other.diffHunks))
          /\ other.pc = "done" => other.diffHunks = theirs

\* Both calls are under way on different texts: this one is suspended at
\* the yield of line 110, between the test of line 108 and the exec of
\* line 118 on its second header; the other is suspended at the yield of
\* line 165 with a hunk of two DiffLines that its caller has not taken yet.
C17_Witness ==
  /\ pc = "yield110"
  /\ Len(scanned) = 1
  /\ HeaderTest(itr.value)
  /\ other # <<>>
  /\ other.pc = "yield165"
  /\ other.patch # patch
  /\ other.diffHunks = <<>>
  /\ Len(other.diffHunkIter[1].diffLines) = 2

\* C17, the reference: a call on its own (Spec) ends with the hunks of
\* parseDiffHunkAlone.
C17_AloneIsSingleCall == pc = "done" => diffHunks = parseDiffHunkAlone(patch)

(***************************************************************************)
(* Content lines that hold the header pattern.                             *)
(***************************************************************************)

\* The line processed last was scanned inside an open hunk (a header came
\* before it) and starts with ' ', '+' or '-'.
ContentLineProcessed ==
  /\ pc = "loop"
  /\ Len(scanned) >= 2
  /\ FirstHeader(scanned) # 0
  /\ FirstHeader(scanned) < Len(scanned)
  /\ IsContent(scanned[Len(scanned)])

\* What C18 says of the line processed last: it gave the last DiffLine of
\* the hunk that was open, of the type of its first character, and that
\* hunk is still the open one: as many hunks as headers before the line.
AppendedToOpenHunk ==
  LET line == scanned[Len(scanned)]
      H    == HeaderIndices(SubSeq(scanned, 1, Len(scanned) - 1), 1)
  IN /\ diffHunk # <<>>
     /\ Len(BuiltHunks) = Len(H)
     /\ LET D == diffHunk[1].diffLines
        IN /\ Len(D) >= 2
           /\ D[1].raw = scanned[H[Len(H)]]
           /\ D[Len(D)].raw = line
           /\ D[Len(D)].type = getDiffChangeType(line)
           /\ D[Len(D)].type \in {"Context", "Add", "Delete"}

\* C18: a line is taken as a header only if the pattern starts at its first
\* character: a line scanned inside an open hunk that starts with ' ', '+'
\* or '-' appends one Context, Add or Delete DiffLine to that hunk and
\* neither closes it nor opens another, whatever follows its first
\* character.
C18_ContentLineNeverHeader == ContentLineProcessed => AppendedToOpenHunk

\* C18 for the lines in which the pattern does not occur: there the
\* statement holds.
C18_WhenPatternNotInside ==
  (ContentLineProcessed /\ ~HeaderTest(scanned[Len(scanned)])) => AppendedToOpenHunk

\* A content line without the pattern was processed as the third line of a
\* hunk.
C18_WhenPatternNotInsideWitness ==
  /\ ContentLineProcessed
  /\ ~HeaderTest(scanned[Len(scanned)])
  /\ Len(scanned) = 3
  /\ Len(diffHunk[1].diffLines) = 3
  /\ diffHunks = <<>>

(***************************************************************************)
(* endwithLineBreak in the output.                                         *)
(***************************************************************************)

\* C19: in the hunks a parse returns, a DiffLine has endwithLineBreak false
\* exactly if the line scanned right after its own line is a line the
\* builder does not take as a header (the pattern occurs nowhere in it)
\* and does not start with ' ', '+' or '-'; an empty line is such a line,
\* and the DiffLine can be the header's Control DiffLine.  Every other
\* DiffLine has endwithLineBreak true.
C19_FlagClearedIffControlLineFollows ==
  pc = "done" =>
    LET f == FirstHeader(scanned)
        P == Producing(scanned, f)
        D == FlatLines(diffHunks)
    IN /\ Len(D) = Len(P)
       /\ \A k \in 1..Len(D) :
            /\ D[k].raw = scanned[P[k]]
            /\ D[k].endwithLineBreak \in BOOLEAN
            /\ ~D[k].endwithLineBreak <=>
                 /\ P[k] < Len(scanned)
                 /\ ~HeaderTest(scanned[P[k] + 1])
                 /\ ~IsContent(scanned[P[k] + 1])

\* A parse of a header, an empty line and two content lines: the header's
\* DiffLine lost its flag to the empty line, the content lines kept theirs.
C19_Witness ==
  /\ pc = "done"
  /\ Len(scanned) = 4
  /\ scanned[2] = Empty
  /\ Len(diffHunks) = 1
  /\ Len(diffHunks[1].diffLines) = 3
  /\ diffHunks[1].diffLines[1].type = "Control"
  /\ ~diffHunks[1].diffLines[1].endwithLineBreak
  /\ diffHunks[1].diffLines[2].endwithLineBreak
  /\ diffHunks[1].diffLines[3].endwithLineBreak

====
